---- MODULE Spec2Model ----
(***************************************************************************)
(* yourdns-server: the record store, the proxy-rule store, the certificate *)
(* store (src/index.js), the management API in front of them (src/api.js)  *)
(* and the DNS query handler (src/unnamed/part_000).                       *)
(*                                                                         *)
(* Strings are sequences of one-character strings, so that LOWER, LIKE,    *)
(* replace, string_to_array and RegExp matching are computed character by  *)
(* character, the way PostgreSQL and JavaScript compute them.              *)
(***************************************************************************)
EXTENDS Integers, Sequences, FiniteSets, TLC

VARIABLES
    records,    \* table records: a set of rows (id is the primary key)
    now,        \* Date.now(), in milliseconds
    nextId,     \* the next id randomUUID() gives a row of records (always fresh)
    apiRes,     \* the management API's last response
    rules,      \* table proxy_rules: a set of rows (id is the primary key)
    nextRuleId, \* the next id randomUUID() gives a row of proxy_rules
    reqs,       \* the DNS queries received: where each handler stands
    listener,   \* the process that runs the DNS server and the API
    certs,      \* table certs: a set of rows (id is the primary key)
    nextCertId, \* the next id randomUUID() gives a CertPair
    call,       \* the calls of init and generateCert: where each stands
    last,       \* history: the certificate operation that completed last
    prev        \* history: the one that completed before it

recVars == <<records, now, nextId, apiRes>>
dnsVars == <<rules, nextRuleId, reqs, listener>>
certVars == <<certs, nextCertId, call, last, prev>>
vars == <<recVars, dnsVars, certVars>>

(***************************************************************************)
(* Bounds                                                                  *)
(***************************************************************************)
\* Longest name (in characters) posted to and resolved by the API.
MaxLen == 3
\* Rows in proxy_rules and in records while DNS queries are handled.
MaxRules == 1
MaxRecords == 1
\* Records pushed, and the latest clock reading, where the order of the
\* answers is looked at.
MaxPushes == 2
MaxClock == 1
\* The DNS queries in flight at once: two handlers
Queries == {1, 2}
\* Proxy rules created where rules are created and updated
MaxRuleWrites == 2
\* CertPair ids issued
MaxCerts == 3
\* The callers of init and generateCert that can be in flight at once
Callers == {1, 2}

\* The characters of names.  "A" is the one upper-case letter; "." separates
\* labels; "*" is the wildcard of record names; "_" and "%" are ordinary
\* characters of a name that LIKE reads as wildcards.  The escape character
\* of LIKE (backslash) is not in the alphabet.
Alphabet == {"a", "A", ".", "*", "_", "%"}

Names(n) == UNION {[1..k -> Alphabet] : k \in 1..n}

\* SQL NULL; a nullable integer n is the set {n}
NULL == {}

(***************************************************************************)
(* SQL and JavaScript string functions                                     *)
(***************************************************************************)
LowerChar(c) == IF c = "A" THEN "a" ELSE IF c = "B" THEN "b" ELSE c

\* SQL LOWER(s)
LOWER(s) == [i \in 1..Len(s) |-> LowerChar(s[i])]

\* SQL replace(s, from, to) for one-character from and to
replace(s, from, to) == [i \in 1..Len(s) |-> IF s[i] = from THEN to ELSE s[i]]

\* SQL string_to_array(s, delim): the fields of s; the empty string gives the
\* empty array.
RECURSIVE SplitFrom(_, _, _, _)
SplitFrom(s, delim, i, cur) ==
    IF i > Len(s) THEN <<cur>>
    ELSE IF s[i] = delim THEN <<cur>> \o SplitFrom(s, delim, i + 1, <<>>)
    ELSE SplitFrom(s, delim, i + 1, Append(cur, s[i]))

string_to_array(s, delim) == IF s = <<>> THEN <<>> ELSE SplitFrom(s, delim, 1, <<>>)

\* SQL array_length(arr, 1): NULL for an empty array
array_length(arr) == IF Len(arr) = 0 THEN NULL ELSE {Len(arr)}

\* SQL a = b in a WHERE clause: a comparison with NULL does not select the row
SqlEq(a, b) == a /= NULL /\ b /= NULL /\ a = b

\* SQL s LIKE p: "%" matches any run of characters (dots included), "_" any
\* one character, every other character itself.
RECURSIVE LikeAt(_, _, _, _)
LikeAt(s, i, p, j) ==
    IF j > Len(p) THEN i > Len(s)
    ELSE IF p[j] = "%" THEN \E k \in i..(Len(s) + 1) : LikeAt(s, k, p, j + 1)
    ELSE IF i > Len(s) THEN FALSE
    ELSE IF p[j] = "_" THEN LikeAt(s, i + 1, p, j + 1)
    ELSE s[i] = p[j] /\ LikeAt(s, i + 1, p, j + 1)

LIKE(s, p) == LikeAt(s, 1, p, 1)

(***************************************************************************)
(* Record store (src/index.js)                                             *)
(***************************************************************************)
recordTypes == {"A", "AAAA", "CNAME", "TXT"}

\* pushRecord: INSERT ... VALUES ($1, LOWER($2), $3, $4, $5, $6) RETURNING *
pushRecordRow(id, name, type, ttl, value, ts) ==
    [id |-> id, name |-> LOWER(name), type |-> type, ttl |-> ttl,
     value |-> value, timestamp |-> ts]

\* updateRecord with SET name = $2
updateRecordRowNoLower(row, name, type, ttl, value) ==
    [row EXCEPT !.name = name, !.type = type, !.ttl = ttl, !.value = value]

\* updateRecord: SET name = LOWER($2), type = $3, ttl = $4, value = $5
updateRecordRow(row, name, type, ttl, value) ==
    [row EXCEPT !.name = LOWER(name), !.type = type, !.ttl = ttl, !.value = value]

\* updateRecord: UPDATE records ... WHERE id = $1
updateRecord(tbl, id, name, type, ttl, value) ==
    {IF r.id = id THEN updateRecordRow(r, name, type, ttl, value) ELSE r : r \in tbl}

\* deleteRecordByID: DELETE FROM records WHERE id = $1
deleteRecordByID(tbl, id) == {r \in tbl : r.id /= id}

\* deleteRecordByName: DELETE FROM records WHERE name = $1
deleteRecordByName(tbl, name) == {r \in tbl : r.name /= name}

\* getRecords without the label-count condition
getRecordsRowsNoCount(tbl, name) ==
    {r \in tbl : LIKE(LOWER(name), replace(r.name, "*", "%"))}

\* getRecords: the rows the WHERE clause selects
getRecordsRows(tbl, name) ==
    {r \in tbl :
        /\ LIKE(LOWER(name), replace(r.name, "*", "%"))
        /\ SqlEq(array_length(string_to_array(r.name, ".")),
                 array_length(string_to_array(name, ".")))}

\* ORDER BY timestamp ASC: the rows in some order of non-decreasing
\* timestamp; rows of equal timestamp come in any order.
OrderByTimestamp(rows) ==
    {s \in [1..Cardinality(rows) -> rows] :
        /\ \A i, j \in DOMAIN s : i /= j => s[i] /= s[j]
        /\ \A i, j \in DOMAIN s : i < j => s[i].timestamp <= s[j].timestamp}

\* getRecords(name): the results the query can return
getRecords(tbl, name) == OrderByTimestamp(getRecordsRows(tbl, name))

(***************************************************************************)
(* JavaScript RegExp, for patterns made of letters, ".", "^", "$" and the  *)
(* quantifier "*"                                                          *)
(***************************************************************************)
\* new RegExp(src) throws "Nothing to repeat" when a "*" has no atom before it
RegExpCompiles(src) ==
    \A j \in DOMAIN src :
        src[j] = "*" => j > 1 /\ src[j - 1] \notin {"*", "^", "$"}

\* One pattern character against one character of the string; with flag "i"
\* letters are compared case-insensitively.
AtomMatch(a, c, flagI) ==
    IF a = "." THEN TRUE
    ELSE IF flagI THEN LowerChar(a) = LowerChar(c)
    ELSE a = c

\* The pattern from position j matches the string from position i
RECURSIVE MatchHere(_, _, _, _, _)
MatchHere(p, j, s, i, flagI) ==
    IF j > Len(p) THEN TRUE
    ELSE IF p[j] = "^" THEN i = 1 /\ MatchHere(p, j + 1, s, i, flagI)
    ELSE IF p[j] = "$" THEN i = Len(s) + 1 /\ MatchHere(p, j + 1, s, i, flagI)
    ELSE IF j < Len(p) /\ p[j + 1] = "*"
         THEN \E k \in i..(Len(s) + 1) :
                 /\ \A m \in i..(k - 1) : AtomMatch(p[j], s[m], flagI)
                 /\ MatchHere(p, j + 2, s, k, flagI)
    ELSE /\ i <= Len(s)
         /\ AtomMatch(p[j], s[i], flagI)
         /\ MatchHere(p, j + 1, s, i + 1, flagI)

\* s.match(new RegExp(src, flags)) is not null: the pattern matches somewhere
RegExpMatch(src, s, flagI) ==
    \E i \in 1..(Len(s) + 1) : MatchHere(src, 1, s, i, flagI)

(***************************************************************************)
(* Proxy-rule store (src/index.js)                                         *)
(***************************************************************************)
null == "null"
throw == "throw"

\* All orders of a set of rows: what a SELECT without ORDER BY can return
AnyOrder(rows) ==
    {s \in [1..Cardinality(rows) -> rows] :
        \A i, j \in DOMAIN s : i /= j => s[i] /= s[j]}

\* getAllProxyRules: SELECT * FROM proxy_rules
getAllProxyRules(tbl) == AnyOrder(tbl)

\* The loop of getProxyDNS over the rows of getAllProxyRules: the address of
\* the first rule that matches, null when none does; new RegExp throws on a
\* rule that does not compile.
RECURSIVE ScanRules(_, _, _, _)
ScanRules(rows, i, domain, flagI) ==
    IF i > Len(rows) THEN null
    ELSE IF ~RegExpCompiles(rows[i].rule) THEN throw
    ELSE IF RegExpMatch(rows[i].rule, domain, flagI) THEN rows[i].addr
    ELSE ScanRules(rows, i + 1, domain, flagI)

\* getProxyDNS with new RegExp(rule.rule): no "i" flag
getProxyDNSNoFlag(rows, domain) == ScanRules(rows, 1, domain, FALSE)

\* getProxyDNS(domain), rows being what getAllProxyRules returned
getProxyDNS(rows, domain) == ScanRules(rows, 1, domain, TRUE)

\* pushProxyRule: INSERT INTO proxy_rules (id, rule, addr)
pushProxyRuleRow(id, ruleRegex, addr) == [id |-> id, rule |-> ruleRegex, addr |-> addr]

\* updateProxyRule: UPDATE proxy_rules SET rule = $2, addr = $3 WHERE id = $1
updateProxyRule(tbl, id, ruleRegex, addr) ==
    {IF r.id = id THEN [r EXCEPT !.rule = ruleRegex, !.addr = addr] ELSE r : r \in tbl}

(***************************************************************************)
(* Certificate store (src/index.js)                                        *)
(***************************************************************************)
\* The domain of the root CA's pair
Root == <<".">>
CA_NAME == "yourdns"

\* rows?.[0] of a query that selected no row
NoCert == [id |-> 0]

\* findByOwner(owner): the ownership records whose value is owner
findByOwner(tbl, owner) ==
    {r \in tbl : LIKE(r.name, <<"-", ".", "%">>) /\ r.type = "TXT" /\ r.value = owner}

\* getCert that finds nothing
getCertNone(tbl, domain) == {NoCert}

\* getCert(domain): rows?.[0] of SELECT * FROM certs WHERE domain = $1, any
\* of the rows when there are several
getCert(tbl, domain) ==
    IF \E c \in tbl : c.domain = domain
    THEN {c \in tbl : c.domain = domain}
    ELSE {NoCert}

\* removeCertByID that deletes nothing
removeCertByIDNoop(tbl, id) == tbl

\* removeCertByID(id): DELETE FROM certs WHERE id = $1
removeCertByID(tbl, id) == {c \in tbl : c.id /= id}

\* The certificate generateCert builds: serial number from the pair's id,
\* signed with the key of pair signer (the new pair itself for a CA)
Certificate(id, domain, ca, signer) ==
    [serialNumber |-> id,
     subject |-> IF ca THEN CA_NAME ELSE domain,
     issuer |-> CA_NAME,
     cA |-> ca,
     signedWithKeyOf |-> signer]

\* The row of a pair whose certificate is signed with the pair's own key
CertRowOwnKey(id, domain, ca, signer, ts) ==
    [id |-> id, domain |-> IF ca THEN Root ELSE domain,
     key |-> id, cert |-> Certificate(id, domain, ca, id),
     timestamp |-> ts, until |-> <<ts, IF ca THEN "VALID_MS_CA" ELSE "VALID_MS">>]

\* The row generateCert inserts; every pair has a key of its own (the key
\* of pair id), valid for 25 years (CA) or one year from now
CertRow(id, domain, ca, signer, ts) ==
    [id |-> id, domain |-> IF ca THEN Root ELSE domain,
     key |-> id, cert |-> Certificate(id, domain, ca, signer),
     timestamp |-> ts, until |-> <<ts, IF ca THEN "VALID_MS_CA" ELSE "VALID_MS">>]

IdleCall == [pc |-> "idle", op |-> "none", domain |-> <<>>, ca |-> FALSE,
             owner |-> "none", old |-> NoCert, id |-> 0, signer |-> 0,
             before |-> {}]

Finished(p) == call[p].pc \in {"idle", "returned", "threw"}

\* What last and prev keep of a completed operation
Completed(c, outcome, created) ==
    [op |-> c.op, domain |-> c.domain, ca |-> c.ca, owner |-> c.owner,
     outcome |-> outcome, id |-> c.id, created |-> created, before |-> c.before]

NoOp == [op |-> "none", domain |-> <<>>, ca |-> FALSE, owner |-> "none",
         outcome |-> "none", id |-> 0, created |-> FALSE, before |-> {}]

\* The call of p ends: returns or throws
Complete(p, c, outcome, created) ==
    /\ call' = [call EXCEPT ![p] = [c EXCEPT !.pc = outcome]]
    /\ last' = Completed(c, outcome, created)
    /\ prev' = [last EXCEPT !.before = {}]

\* generateCert(domain, ca) is called; a further argument (an owner
\* identifier) has no parameter to bind to
CallGenerateCert(p, domain, ca, owner) ==
    /\ listener = "running"
    /\ Finished(p)
    /\ call' = [call EXCEPT ![p] = [IdleCall EXCEPT !.pc = "getCert",
                   !.op = "generateCert", !.domain = domain, !.ca = ca,
                   !.owner = owner, !.before = certs]]
    /\ UNCHANGED <<certs, nextCertId, last, prev, recVars, dnsVars>>

\* init() reaches if(!(await getCert(".")))
CallInit(p) ==
    /\ listener = "running"
    /\ Finished(p)
    /\ call' = [call EXCEPT ![p] = [IdleCall EXCEPT !.pc = "initGetCert",
                   !.op = "init", !.domain = Root, !.ca = TRUE, !.before = certs]]
    /\ UNCHANGED <<certs, nextCertId, last, prev, recVars, dnsVars>>

\* if(!(await getCert("."))) await generateCert(".", true)
InitGetCert(p) ==
    /\ call[p].pc = "initGetCert"
    /\ \E found \in getCert(certs, Root) :
          IF found = NoCert
          THEN /\ call' = [call EXCEPT ![p].pc = "getCert"]
               /\ UNCHANGED <<last, prev>>
          ELSE Complete(p, call[p], "returned", FALSE)
    /\ UNCHANGED <<certs, nextCertId, recVars, dnsVars>>

\* const old = await getCert(domain); const id = randomUUID(); ... a CA
\* signs its certificate with its own new key and goes on to the writes
GenGetCert(p) ==
    /\ call[p].pc = "getCert"
    /\ \E old \in getCert(certs, call[p].domain) :
          call' = [call EXCEPT ![p].old = old, ![p].id = nextCertId,
                      ![p].signer = IF call[p].ca THEN nextCertId ELSE 0,
                      ![p].pc = IF ~call[p].ca THEN "getCA"
                                ELSE IF old /= NoCert THEN "remove" ELSE "insert"]
    /\ nextCertId' = nextCertId + 1
    /\ UNCHANGED <<certs, last, prev, recVars, dnsVars>>

\* GenGetCA that signs with the pair's own key when there is no root
GenGetCASelfSigned(p) ==
    /\ call[p].pc = "getCA"
    /\ \E caCert \in getCert(certs, Root) :
          call' = [call EXCEPT
                      ![p].signer = IF caCert = NoCert THEN call[p].id ELSE caCert.key,
                      ![p].pc = IF call[p].old /= NoCert THEN "remove" ELSE "insert"]
    /\ UNCHANGED <<certs, nextCertId, last, prev, recVars, dnsVars>>

\* const caCert = await getCert("."); ... caCert.key throws a TypeError when
\* there is no root; cert.sign(privateKey, hash)
GenGetCA(p) ==
    /\ call[p].pc = "getCA"
    /\ \E caCert \in getCert(certs, Root) :
          IF caCert = NoCert
          THEN Complete(p, call[p], "threw", FALSE)
          ELSE /\ call' = [call EXCEPT ![p].signer = caCert.key,
                              ![p].pc = IF call[p].old /= NoCert THEN "remove"
                                        ELSE "insert"]
               /\ UNCHANGED <<last, prev>>
    /\ UNCHANGED <<certs, nextCertId, recVars, dnsVars>>

\* if(old) await removeCertByID(old.id)
GenRemove(p) ==
    /\ call[p].pc = "remove"
    /\ certs' = removeCertByID(certs, call[p].old.id)
    /\ call' = [call EXCEPT ![p].pc = "insert"]
    /\ UNCHANGED <<nextCertId, last, prev, recVars, dnsVars>>

\* return ... INSERT INTO certs (id, domain, key, cert, timestamp, until)
GenInsert(p) ==
    /\ call[p].pc = "insert"
    /\ certs' = certs \cup {CertRow(call[p].id, call[p].domain, call[p].ca,
                                    call[p].signer, now)}
    /\ Complete(p, call[p], "returned", TRUE)
    /\ UNCHANGED <<nextCertId, recVars, dnsVars>>

\* removeCertByID(id) called on its own
CallRemoveCertByID(id) ==
    /\ listener = "running"
    /\ certs' = removeCertByID(certs, id)
    /\ last' = [NoOp EXCEPT !.op = "removeCertByID", !.id = id,
                            !.outcome = "returned", !.before = certs]
    /\ prev' = [last EXCEPT !.before = {}]
    /\ UNCHANGED <<nextCertId, call, recVars, dnsVars>>

(***************************************************************************)
(* Management API (src/api.js)                                             *)
(***************************************************************************)
errors == [badRequest |-> "Bad request!", invalidType |-> "Invalid type!",
           invalidRegex |-> "Invalid regex!", ruleNotFound |-> "Rule not found!",
           recordNotFound |-> "Record not found!", invalidID |-> "Invalid ID!"]

\* makeError(msg)
makeError(msg) == [error |-> msg]

\* Validator.str(path, {min: 1}) on a name: a string of at least one character
ValidStr(s) == Len(s) >= 1

\* validateRecordBase: the error it answers 400 with, or "next"
validateRecordBase(body) ==
    IF ~ValidStr(body.name) \/ body.type = "" \/ body.ttl < 1 \/ body.value = ""
    THEN errors.badRequest
    ELSE IF body.type \notin recordTypes THEN errors.invalidType
    ELSE "next"

\* validateID: row ids are the positive integers; 0 stands for a path
\* parameter that REGEX_UUID does not match.
validateID(id) == IF id = 0 THEN errors.invalidID ELSE "next"

\* app.post("/records", validateRecordBase, ...); the field name of the
\* response records the name the request carried.
PostRecords(body) ==
    LET v == validateRecordBase(body) IN
    IF v /= "next"
    THEN /\ apiRes' = [route |-> "POST /records", status |-> 400, body |-> makeError(v)]
         /\ UNCHANGED <<records, now, nextId, dnsVars, certVars>>
    ELSE LET row == pushRecordRow(nextId, body.name, body.type, body.ttl,
                                  body.value, now) IN
         /\ records' = records \cup {row}
         /\ nextId' = nextId + 1
         /\ apiRes' = [route |-> "POST /records", status |-> 201, body |-> row,
                       name |-> body.name]
         /\ UNCHANGED <<now, dnsVars, certVars>>

\* app.put("/records/:id", validateRecordBase, validateID, ...)
PutRecords(id, body) ==
    LET v == validateRecordBase(body)
        w == validateID(id) IN
    IF v /= "next" \/ w /= "next"
    THEN /\ apiRes' = [route |-> "PUT /records/:id", status |-> 400,
                       body |-> makeError(IF v /= "next" THEN v ELSE w)]
         /\ UNCHANGED <<records, now, nextId, dnsVars, certVars>>
    ELSE IF \A r \in records : r.id /= id
    THEN /\ apiRes' = [route |-> "PUT /records/:id", status |-> 404,
                       body |-> makeError(errors.recordNotFound)]
         /\ UNCHANGED <<records, now, nextId, dnsVars, certVars>>
    ELSE /\ records' = updateRecord(records, id, body.name, body.type, body.ttl, body.value)
         /\ apiRes' = [route |-> "PUT /records/:id", status |-> 200,
                       body |-> CHOOSE r \in records' : r.id = id,
                       name |-> body.name]
         /\ UNCHANGED <<now, nextId, dnsVars, certVars>>

\* app.delete("/records/:id", validateID, ...)
DeleteRecordsById(id) ==
    LET w == validateID(id) IN
    IF w /= "next"
    THEN /\ apiRes' = [route |-> "DELETE /records/:id", status |-> 400,
                       body |-> makeError(w)]
         /\ UNCHANGED <<records, now, nextId, dnsVars, certVars>>
    ELSE /\ records' = deleteRecordByID(records, id)
         /\ apiRes' = [route |-> "DELETE /records/:id", status |-> 200,
                       body |-> [status |-> "OK"]]
         /\ UNCHANGED <<now, nextId, dnsVars, certVars>>

\* app.delete("/records") with the query parameter name; the field name of
\* the response records the name the request carried.
DeleteRecords(name) ==
    IF ~ValidStr(name)
    THEN /\ apiRes' = [route |-> "DELETE /records", status |-> 400,
                       body |-> makeError(errors.badRequest)]
         /\ UNCHANGED <<records, now, nextId, dnsVars, certVars>>
    ELSE /\ records' = deleteRecordByName(records, name)
         /\ apiRes' = [route |-> "DELETE /records", status |-> 200,
                       body |-> [status |-> "OK"],
                       name |-> name]
         /\ UNCHANGED <<now, nextId, dnsVars, certVars>>

\* app.get("/resolve/:domain"): the response carries getRecords(domain); the
\* fields domain and table record the request and the table it was run on.
GetResolve(domain) ==
    /\ \E rows \in getRecords(records, domain) :
          apiRes' = [route |-> "GET /resolve", status |-> 200, body |-> rows,
                     domain |-> domain, table |-> records]
    /\ UNCHANGED <<records, now, nextId, dnsVars, certVars>>

\* validateProxyRule without new RegExp(req.body.rule)
validateProxyRuleNoRegExp(body) ==
    IF ~ValidStr(body.addr) \/ ~ValidStr(body.rule) THEN errors.badRequest
    ELSE "next"

\* validateProxyRule: the error it answers 400 with, or "next"
validateProxyRule(body) ==
    IF ~ValidStr(body.addr) \/ ~ValidStr(body.rule) THEN errors.badRequest
    ELSE IF ~RegExpCompiles(body.rule) THEN errors.invalidRegex
    ELSE "next"

\* app.post("/rules", validateProxyRule, ...)
PostRules(body) ==
    LET v == validateProxyRule(body) IN
    IF v /= "next"
    THEN /\ apiRes' = [route |-> "POST /rules", status |-> 400, body |-> makeError(v)]
         /\ UNCHANGED <<records, now, nextId, dnsVars, certVars>>
    ELSE LET row == pushProxyRuleRow(nextRuleId, body.rule, body.addr) IN
         /\ rules' = rules \cup {row}
         /\ nextRuleId' = nextRuleId + 1
         /\ apiRes' = [route |-> "POST /rules", status |-> 200, body |-> row]
         /\ UNCHANGED <<records, now, nextId, reqs, listener, certVars>>

\* app.put("/rules/:id", validateProxyRule, validateID, ...)
PutRules(id, body) ==
    LET v == validateProxyRule(body)
        w == validateID(id) IN
    IF v /= "next" \/ w /= "next"
    THEN /\ apiRes' = [route |-> "PUT /rules/:id", status |-> 400,
                       body |-> makeError(IF v /= "next" THEN v ELSE w)]
         /\ UNCHANGED <<records, now, nextId, dnsVars, certVars>>
    ELSE IF \A r \in rules : r.id /= id
    THEN /\ apiRes' = [route |-> "PUT /rules/:id", status |-> 404,
                       body |-> makeError(errors.ruleNotFound)]
         /\ UNCHANGED <<records, now, nextId, dnsVars, certVars>>
    ELSE /\ rules' = updateProxyRule(rules, id, body.rule, body.addr)
         /\ apiRes' = [route |-> "PUT /rules/:id", status |-> 200,
                       body |-> CHOOSE r \in rules' : r.id = id]
         /\ UNCHANGED <<records, now, nextId, nextRuleId, reqs, listener, certVars>>

(***************************************************************************)
(* DNS server (src/unnamed/part_000)                                       *)
(***************************************************************************)
\* process.env.DEFAULT_SERVER
DEFAULT_SERVER == "1.1.1.1"

\* What the resolver at addr can do with a query for name: reject, answer
\* with no record, or answer with one A record.  The address of that record
\* is the resolver's own, so that an answer tells which resolver gave it.
UpstreamAnswers(addr, name) ==
    {<<>>,
     <<[name |-> name, type |-> "A", class |-> "IN", ttl |-> 300, address |-> addr]>>}

\* The answer handle builds from one record (the field is spelled mame)
Answer(record) ==
    [mame |-> record.name, type |-> record.type, class |-> "IN", ttl |-> record.ttl,
     field |-> IF record.type = "CNAME" THEN "domain"
               ELSE IF record.type = "TXT" THEN "data" ELSE "address",
     value |-> record.value]

IdleReq == [pc |-> "idle", name |-> <<>>, rules |-> <<>>, toAsk |-> null,
            records |-> <<>>, answers |-> <<>>]

\* What the runtime does with the rejected promise of an async handler that
\* nothing catches: raise it as an uncaught exception, which ends the
\* process (the default), or only warn (--unhandled-rejections=warn).
UnhandledRejections == {"throw", "warn"}

\* The promise handle returned rejects: no response is sent for query q
Rejected(q) ==
    /\ reqs' = [reqs EXCEPT ![q].pc = "rejected"]
    /\ \E mode \in UnhandledRejections :
          listener' = IF mode = "throw" THEN "exited" ELSE listener

\* send(res)
Sent(q, answers) ==
    /\ reqs' = [reqs EXCEPT ![q].pc = "sent", ![q].answers = answers]
    /\ UNCHANGED listener

\* handle is called with a request whose first question asks for name
HandleRequest(q, name) ==
    /\ listener = "running"
    /\ reqs[q].pc = "idle"
    /\ \A o \in Queries : o < q => reqs[o].pc /= "idle"
    /\ reqs' = [reqs EXCEPT ![q] = [IdleReq EXCEPT !.pc = "getProxyDNS", !.name = name]]
    /\ UNCHANGED <<recVars, rules, nextRuleId, listener, certVars>>

\* const toAsk = await getProxyDNS(name)
HandleGetProxyDNS(q) ==
    /\ listener = "running"
    /\ reqs[q].pc = "getProxyDNS"
    /\ \E rows \in getAllProxyRules(rules) :
          LET toAsk == getProxyDNS(rows, reqs[q].name) IN
          IF toAsk = throw THEN Rejected(q)
          ELSE /\ reqs' = [reqs EXCEPT ![q].rules = rows, ![q].toAsk = toAsk,
                                       ![q].pc = IF toAsk /= null THEN "resolve"
                                                 ELSE "getRecords"]
               /\ UNCHANGED listener
    /\ UNCHANGED <<recVars, rules, nextRuleId, certVars>>

\* res.answers = (await resolve(name)).answers; send(res)
HandleResolve(q) ==
    /\ listener = "running"
    /\ reqs[q].pc = "resolve"
    /\ \/ \E answers \in UpstreamAnswers(reqs[q].toAsk, reqs[q].name) : Sent(q, answers)
       \/ Rejected(q)
    /\ UNCHANGED <<recVars, rules, nextRuleId, certVars>>

\* handle without if(records.length > 0): the default resolver is asked
\* whatever getRecords returned
HandleGetRecordsNoLocal(q) ==
    /\ listener = "running"
    /\ reqs[q].pc = "getRecords"
    /\ reqs' = [reqs EXCEPT ![q].pc = "defaultResolve"]
    /\ UNCHANGED <<recVars, rules, nextRuleId, listener, certVars>>

\* const records = await getRecords(name); if(records.length > 0) {...}
HandleGetRecords(q) ==
    /\ listener = "running"
    /\ reqs[q].pc = "getRecords"
    /\ \E rows \in getRecords(records, reqs[q].name) :
          IF Len(rows) > 0
          THEN /\ reqs' = [reqs EXCEPT ![q].pc = "sent", ![q].records = rows,
                                       ![q].answers = [i \in 1..Len(rows) |-> Answer(rows[i])]]
               /\ UNCHANGED listener
          ELSE /\ reqs' = [reqs EXCEPT ![q].pc = "defaultResolve"]
               /\ UNCHANGED listener
    /\ UNCHANGED <<recVars, rules, nextRuleId, certVars>>

\* res.answers = (await defaultResolve(name)).answers; send(res)
HandleDefaultResolve(q) ==
    /\ listener = "running"
    /\ reqs[q].pc = "defaultResolve"
    /\ \/ \E answers \in UpstreamAnswers(DEFAULT_SERVER, reqs[q].name) : Sent(q, answers)
       \/ Rejected(q)
    /\ UNCHANGED <<recVars, rules, nextRuleId, certVars>>

\* Date.now() moves on
Tick ==
    /\ now < MaxClock
    /\ now' = now + 1
    /\ UNCHANGED <<records, nextId, apiRes, dnsVars, certVars>>

(***************************************************************************)
(* SpecMatch: one record posted under any name, then resolved under any    *)
(* name                                                                    *)
(***************************************************************************)
NoRes == [route |-> "none"]

InitRec ==
    /\ records = {}
    /\ now = 0
    /\ nextId = 1
    /\ apiRes = NoRes

\* No proxy rule, no query received, the process running
InitDns ==
    /\ rules = {}
    /\ nextRuleId = 1
    /\ reqs = [q \in Queries |-> IdleReq]
    /\ listener = "running"

MatchPost ==
    /\ records = {}
    /\ \E name \in Names(MaxLen) \cup {<<>>}, type \in {"A", "MX"} :
          PostRecords([name |-> name, type |-> type, ttl |-> 60, value |-> "v"])

MatchResolve ==
    /\ apiRes.route = "POST /records" /\ apiRes.status = 201
    /\ \E domain \in Names(MaxLen) : GetResolve(domain)

\* No CertPair, no call made
InitCerts ==
    /\ certs = {}
    /\ nextCertId = 1
    /\ call = [p \in Callers |-> IdleCall]
    /\ last = NoOp
    /\ prev = NoOp

InitMatch == InitRec /\ InitDns /\ InitCerts
NextMatch == MatchPost \/ MatchResolve
SpecMatch == InitMatch /\ [][NextMatch]_vars

(***************************************************************************)
(* SpecDns: the DNS handler, with rules and records posted while queries   *)
(* are in flight                                                           *)
(***************************************************************************)
\* Query names, record names and proxy rules of the DNS specifications
QueryNames == {<<"A">>, <<"b">>}
RecordNames == {<<"A">>, <<"*">>}
RuleSources == {<<"a">>, <<"^", "b", "*", "$">>, <<"*">>}
RuleAddrs == {"9.9.9.9", "8.8.8.8"}

DnsPostRules ==
    /\ listener = "running"
    /\ Cardinality(rules) < MaxRules
    /\ \E rule \in RuleSources, addr \in RuleAddrs :
          PostRules([rule |-> rule, addr |-> addr])

DnsPostRecords ==
    /\ listener = "running"
    /\ Cardinality(records) < MaxRecords
    /\ \E name \in RecordNames, type \in {"A", "TXT"} :
          PostRecords([name |-> name, type |-> type, ttl |-> 60, value |-> "v"])

DnsRequest == \E q \in Queries, name \in QueryNames : HandleRequest(q, name)
DnsGetProxyDNS == \E q \in Queries : HandleGetProxyDNS(q)
DnsResolve == \E q \in Queries : HandleResolve(q)
DnsGetRecords == \E q \in Queries : HandleGetRecords(q)
DnsDefaultResolve == \E q \in Queries : HandleDefaultResolve(q)

InitDnsSpec == InitRec /\ InitDns /\ InitCerts
NextDns ==
    \/ DnsPostRules
    \/ DnsPostRecords
    \/ DnsRequest
    \/ DnsGetProxyDNS
    \/ DnsResolve
    \/ DnsGetRecords
    \/ DnsDefaultResolve
SpecDns == InitDnsSpec /\ [][NextDns]_vars

(***************************************************************************)
(* SpecOrder: records pushed as the clock moves on, then looked up by a    *)
(* DNS query (no proxy rule is stored)                                     *)
(***************************************************************************)
OrderPostRecords ==
    /\ listener = "running"
    /\ Cardinality(records) < MaxPushes
    /\ \E name \in RecordNames, type \in {"A", "TXT"} :
          PostRecords([name |-> name, type |-> type, ttl |-> 60, value |-> "v"])

OrderRequest == \E name \in QueryNames : HandleRequest(1, name)
OrderGetProxyDNS == HandleGetProxyDNS(1)
OrderGetRecords == HandleGetRecords(1)
OrderDefaultResolve == HandleDefaultResolve(1)

InitOrder == InitRec /\ InitDns /\ InitCerts
NextOrder ==
    \/ OrderPostRecords
    \/ Tick
    \/ OrderRequest
    \/ OrderGetProxyDNS
    \/ OrderGetRecords
    \/ OrderDefaultResolve
SpecOrder == InitOrder /\ [][NextOrder]_vars

(***************************************************************************)
(* SpecRecords: records created, updated and deleted through the API       *)
(***************************************************************************)
\* The names the requests carry: in upper, lower and mixed case, and the
\* empty name the validation refuses
WriteNames == {<<"A">>, <<"a">>, <<"a", "B">>, <<>>}

RecPostRecords ==
    /\ nextId <= MaxPushes
    /\ \E name \in WriteNames, type \in {"A", "TXT"} :
          PostRecords([name |-> name, type |-> type, ttl |-> 60, value |-> "v"])

RecPutRecords ==
    \E id \in 0..MaxPushes, name \in WriteNames, type \in {"A", "TXT"} :
        PutRecords(id, [name |-> name, type |-> type, ttl |-> 60, value |-> "v"])

RecDeleteRecordsById == \E id \in 0..MaxPushes : DeleteRecordsById(id)

RecDeleteRecords == \E name \in WriteNames : DeleteRecords(name)

InitRecords == InitRec /\ InitDns /\ InitCerts
NextRecords ==
    \/ RecPostRecords
    \/ RecPutRecords
    \/ RecDeleteRecordsById
    \/ RecDeleteRecords
SpecRecords == InitRecords /\ [][NextRecords]_vars

(***************************************************************************)
(* SpecRules: proxy rules created and updated through the API              *)
(***************************************************************************)
\* The bodies of the requests: a rule that compiles, one that does not or
\* no rule, with an upstream address or without
RuleBodies == [rule : RuleSources \cup {<<>>}, addr : RuleAddrs \cup {""}]

RulesPostRules ==
    /\ nextRuleId <= MaxRuleWrites
    /\ \E body \in RuleBodies : PostRules(body)

RulesPutRules == \E id \in 0..MaxRuleWrites, body \in RuleBodies : PutRules(id, body)

InitRules == InitRec /\ InitDns /\ InitCerts
NextRules == RulesPostRules \/ RulesPutRules
SpecRules == InitRules /\ [][NextRules]_vars

(***************************************************************************)
(* SpecCertSeq: init and generateCert called one after the other, every    *)
(* call starting after the one before it has completed                     *)
(* SpecCert: the same calls made by two callers at once                    *)
(***************************************************************************)
\* The domains certificates are asked for, the owner identifiers passed
\* along, and the ownership record of a domain: "-." before its
\* 2nd-level base
CertDomains == {Root, <<"a", ".", "b">>, <<"x", ".", "a", ".", "b">>}
Owners == {"none", "o1"}
OwnerRecordName == <<"-", ".", "a", ".", "b">>

NoCallInFlight == \A p \in Callers : Finished(p)

CertPostRecords ==
    /\ listener = "running"
    /\ Cardinality(records) < MaxRecords
    /\ PostRecords([name |-> OwnerRecordName, type |-> "TXT", ttl |-> 60, value |-> "o1"])

SeqInit == NoCallInFlight /\ nextCertId <= MaxCerts /\ CallInit(1)
SeqGenerateCert ==
    /\ NoCallInFlight
    /\ nextCertId <= MaxCerts
    /\ \E domain \in CertDomains, ca \in BOOLEAN, owner \in Owners :
          CallGenerateCert(1, domain, ca, owner)
SeqRemoveCertByID ==
    /\ NoCallInFlight
    /\ \E c \in certs : CallRemoveCertByID(c.id)
SeqPostRecords == NoCallInFlight /\ CertPostRecords

StepInitGetCert == \E p \in Callers : InitGetCert(p)
StepGetCert == \E p \in Callers : GenGetCert(p)
StepGetCA == \E p \in Callers : GenGetCA(p)
StepRemove == \E p \in Callers : GenRemove(p)
StepInsert == \E p \in Callers : GenInsert(p)

InitCertSpec == InitRec /\ InitDns /\ InitCerts
NextCertSeq ==
    \/ SeqInit
    \/ SeqGenerateCert
    \/ SeqRemoveCertByID
    \/ SeqPostRecords
    \/ StepInitGetCert
    \/ StepGetCert
    \/ StepGetCA
    \/ StepRemove
    \/ StepInsert
SpecCertSeq == InitCertSpec /\ [][NextCertSeq]_vars

ConcInit == \E p \in Callers : nextCertId <= MaxCerts /\ CallInit(p)
ConcGenerateCert ==
    \E p \in Callers, domain \in CertDomains, ca \in BOOLEAN :
        nextCertId <= MaxCerts /\ CallGenerateCert(p, domain, ca, "none")

NextCert ==
    \/ ConcInit
    \/ ConcGenerateCert
    \/ StepInitGetCert
    \/ StepGetCert
    \/ StepGetCA
    \/ StepRemove
    \/ StepInsert
SpecCert == InitCertSpec /\ [][NextCert]_vars

(***************************************************************************)
(* SpecCertGen: the process has started and called init(); generateCert is *)
(* then called with any arguments, one call after the other                *)
(***************************************************************************)
\* await init() at start-up: the call stands at if(!(await getCert(".")))
InitCalled ==
    call = [p \in Callers |->
               IF p = 1 THEN [IdleCall EXCEPT !.pc = "initGetCert", !.op = "init",
                                              !.domain = Root, !.ca = TRUE]
               ELSE IdleCall]

InitCertGen ==
    /\ InitRec /\ InitDns
    /\ certs = {}
    /\ nextCertId = 1
    /\ InitCalled
    /\ last = NoOp
    /\ prev = NoOp

NextCertGen ==
    \/ SeqGenerateCert
    \/ StepInitGetCert
    \/ StepGetCert
    \/ StepGetCA
    \/ StepRemove
    \/ StepInsert
SpecCertGen == InitCertGen /\ [][NextCertGen]_vars

(***************************************************************************)
(* Claims about getRecords (checked under SpecMatch)                       *)
(***************************************************************************)
Range(f) == {f[i] : i \in DOMAIN f}

\* The '.'-separated labels of a non-empty name, and their number
Labels(s) == SplitFrom(s, ".", 1, <<>>)
NumLabels(s) == 1 + Cardinality({i \in DOMAIN s : s[i] = "."})

\* Every label of pattern p that is not the wildcard label "*" equals the
\* label of q at the same place, compared case-insensitively
LabelwiseMatch(p, q) ==
    \A k \in DOMAIN Labels(p) :
        Labels(p)[k] = <<"*">> \/ LOWER(Labels(p)[k]) = LOWER(Labels(q)[k])

Resolved == apiRes.route = "GET /resolve"

\* C2: for every stored record R and every query name Q with as many labels
\* as R's name, getRecords(Q) includes R if and only if each non-wildcard
\* label of R's name equals the corresponding label of Q, case-insensitively.
\* The names are all those the write path accepts, '_' and '%' included.
C2_LabelwiseIff ==
    Resolved =>
        \A r \in apiRes.table :
            NumLabels(r.name) = NumLabels(apiRes.domain) =>
                (r \in Range(apiRes.body) <=> LabelwiseMatch(r.name, apiRes.domain))

\* C3: a stored record whose name has a different number of labels than the
\* query name is not returned by getRecords, whatever the labels contain.
C3_LabelCountMismatch ==
    Resolved =>
        \A r \in apiRes.table :
            NumLabels(r.name) /= NumLabels(apiRes.domain) =>
                r \notin Range(apiRes.body)

\* C3's case: the LIKE pattern of a stored record matches a query name of a
\* different label count ("*" against "a.a"), and the record is left out.
C3_Witness ==
    /\ Resolved
    /\ \E r \in apiRes.table :
          /\ NumLabels(r.name) /= NumLabels(apiRes.domain)
          /\ LIKE(LOWER(apiRes.domain), replace(r.name, "*", "%"))
          /\ r \notin Range(apiRes.body)

(***************************************************************************)
(* Claims about the DNS handler (checked under SpecDns)                    *)
(***************************************************************************)
\* The rows of the rule snapshot of query q whose rule matches the query
\* name case-insensitively
MatchingRules(q) ==
    {i \in DOMAIN reqs[q].rules :
        RegExpMatch(reqs[q].rules[i].rule, reqs[q].name, TRUE)}

\* C1: when at least one proxy rule matches the query name
\* (case-insensitively), the response of the DNS handler is exactly an answer
\* set of the upstream server of a matching rule; no answer built from a
\* local record is in it, even when getRecords would return records.
C1_ProxyBeforeLocal ==
    \A q \in Queries :
        (reqs[q].pc = "sent" /\ MatchingRules(q) /= {}) =>
            \E i \in MatchingRules(q) :
                reqs[q].answers \in UpstreamAnswers(reqs[q].rules[i].addr, reqs[q].name)

\* C1's case: a query in upper case answered by the upstream of a rule
\* written in lower case while a local record matches the same name.
C1_Witness ==
    \E q \in Queries :
        /\ reqs[q].pc = "sent"
        /\ MatchingRules(q) /= {}
        /\ reqs[q].name = <<"A">>
        /\ getRecordsRows(records, reqs[q].name) /= {}
        /\ reqs[q].answers /= <<>>

\* C9: when the forwarding call of one query rejects, only that query goes
\* unanswered: the listener stays in its running state.
C9_ListenerSurvives ==
    \A q \in Queries : reqs[q].pc = "rejected" => listener = "running"

(***************************************************************************)
(* Claims about the order of answers (checked under SpecOrder)             *)
(***************************************************************************)
\* The rows in the order of their insertion: ids are issued in increasing
\* order, so a smaller id is an earlier insertion.
InsertionOrder(rows) ==
    CHOOSE s \in [1..Cardinality(rows) -> rows] :
        \A i, j \in DOMAIN s : i < j => s[i].id < s[j].id

\* C10: the answers of a response built from local records appear in the
\* order in which the records were inserted, oldest first, also when records
\* were pushed within the same clock millisecond.
C10_InsertionOrder ==
    \A q \in Queries :
        (reqs[q].pc = "sent" /\ Len(reqs[q].records) > 0) =>
            LET inserted == InsertionOrder(Range(reqs[q].records)) IN
            reqs[q].answers = [i \in DOMAIN inserted |-> Answer(inserted[i])]

(***************************************************************************)
(* Claims about the certificate store (SpecCertSeq, SpecCert)              *)
(***************************************************************************)
PairsOf(tbl, domain) == {c \in tbl : c.domain = domain}

\* The state a completed operation leaves: no call is in flight
JustCompleted(op) == NoCallInFlight /\ last.op = op

IssuedLeaf(o) ==
    /\ o.op = "generateCert"
    /\ ~o.ca
    /\ o.domain /= Root

\* C4: with a root CA present, generateCert(d) called twice in sequence for
\* the same non-root domain d leaves exactly one CertPair with domain d,
\* and its id differs from the id the first call returned.
C4_ReissueReplaces ==
    (/\ JustCompleted("generateCert")
     /\ IssuedLeaf(last) /\ last.outcome = "returned"
     /\ IssuedLeaf(prev) /\ prev.outcome = "returned"
     /\ prev.domain = last.domain) =>
        /\ Cardinality(PairsOf(certs, last.domain)) = 1
        /\ \A c \in PairsOf(certs, last.domain) : c.id = last.id
        /\ last.id /= prev.id

\* C4's case: the second of two calls for one domain has returned, and the
\* pair of the first call was in the store when it started.
C4_Witness ==
    /\ JustCompleted("generateCert")
    /\ IssuedLeaf(last) /\ last.outcome = "returned"
    /\ IssuedLeaf(prev) /\ prev.outcome = "returned"
    /\ prev.domain = last.domain
    /\ \E c \in last.before : c.id = prev.id

\* C5: the bootstrap step of init run twice in sequence, the first run
\* creating the root, leaves exactly one CertPair with domain ".", and the
\* second run leaves that pair (and the store) as the first run left it.
C5_BootstrapIdempotent ==
    (/\ JustCompleted("init")
     /\ prev.op = "init" /\ prev.created) =>
        /\ certs = last.before
        /\ Cardinality(PairsOf(certs, Root)) = 1
        /\ \A c \in PairsOf(certs, Root) :
              c = CertRow(prev.id, Root, TRUE, prev.id, c.timestamp)
        /\ ~last.created

\* C5's case: a second run of init has completed after a run that created
\* the root.
C5_Witness ==
    /\ JustCompleted("init")
    /\ prev.op = "init" /\ prev.created
    /\ PairsOf(certs, Root) /= {}

\* The '.'-separated labels of a name joined again
RECURSIVE Join(_)
Join(labels) ==
    IF Len(labels) = 0 THEN <<>>
    ELSE IF Len(labels) = 1 THEN labels[1]
    ELSE labels[1] \o <<".">> \o Join(Tail(labels))

\* The 2nd-level base of a domain (its last two labels) and the name of the
\* ownership record of that base
Base(domain) ==
    LET l == Labels(domain) IN
    IF Len(l) <= 2 THEN domain ELSE Join(SubSeq(l, Len(l) - 1, Len(l)))
OwnershipName(domain) == <<"-", ".">> \o Base(domain)

OwnershipProved(domain, owner) ==
    \E r \in findByOwner(records, owner) : r.name = OwnershipName(domain)

\* C6: issuance for a domain with a supplied owner identifier fails with an
\* authorization error and stores no new CertPair when no ownership record
\* "-.<base>" with that owner as its value exists; with a matching record it
\* succeeds.
C6_OwnershipGate ==
    (/\ JustCompleted("generateCert")
     /\ IssuedLeaf(last)
     /\ last.owner /= "none"
     /\ PairsOf(last.before, Root) /= {}) =>
        IF OwnershipProved(last.domain, last.owner)
        THEN last.outcome = "returned"
        ELSE last.outcome = "threw" /\ certs = last.before

\* C7: while no CertPair with domain "." exists, a generateCert(d) call for
\* a non-root domain d ends in an error and leaves the certificate store as
\* it was, any pair stored for d included; with the root present the same
\* call succeeds and its pair is stored.
C7_NoRootNoIssue ==
    (JustCompleted("generateCert") /\ IssuedLeaf(last)) =>
        IF PairsOf(last.before, Root) = {}
        THEN last.outcome = "threw" /\ certs = last.before
        ELSE /\ last.outcome = "returned"
             /\ \E c \in PairsOf(certs, last.domain) : c.id = last.id

\* C7's case: the call failed for want of a root while a pair for its
\* domain was stored, and that pair is still there.
C7_Witness ==
    /\ JustCompleted("generateCert") /\ IssuedLeaf(last)
    /\ PairsOf(last.before, Root) = {}
    /\ PairsOf(last.before, last.domain) /= {}
    /\ last.outcome = "threw"
    /\ PairsOf(certs, last.domain) /= {}

\* C8: in every reachable state, with generateCert calls for one domain
\* running concurrently, the certificate store holds at most one CertPair
\* per domain.
C8_OnePairPerDomain ==
    \A domain \in CertDomains : Cardinality(PairsOf(certs, domain)) <= 1

(***************************************************************************)
(* Claims about the names of the record store (checked under SpecRecords)  *)
(***************************************************************************)
\* C11: whatever records were created, updated and deleted, with names in
\* any letter case, every record in the store has a name equal to its own
\* lower-cased form.
C11_NamesLowerCased == \A r \in records : r.name = LOWER(r.name)

\* A record in the store was just updated with a name that is not in lower
\* case
C11_Witness ==
    /\ apiRes.route = "PUT /records/:id" /\ apiRes.status = 200
    /\ apiRes.name /= LOWER(apiRes.name)
    /\ apiRes.body \in records

\* C16: when DELETE /records?name=n is the request right after the
\* POST /records that created a record under the same name n, the record
\* that POST created is no longer in the store.
C16_DeleteByCreationName ==
    [][IF /\ apiRes.route = "POST /records" /\ apiRes.status = 201
          /\ apiRes'.route = "DELETE /records" /\ apiRes'.status = 200
          /\ apiRes'.name = apiRes.name
       THEN \A r \in records' : r.id /= apiRes.body.id
       ELSE TRUE]_vars

(***************************************************************************)
(* Claims about the proxy-rule store (checked under SpecRules)             *)
(***************************************************************************)
\* The step is the handling of POST /rules or of PUT /rules/:id with this
\* body
RuleWrite(body) ==
    \/ PostRules(body)
    \/ \E id \in 0..MaxRuleWrites : PutRules(id, body)

RejectedInvalidRegex ==
    /\ apiRes'.status = 400
    /\ apiRes'.body = makeError(errors.invalidRegex)
    /\ rules' = rules

SelfSignedCA(c) == c.cert.cA /\ c.cert.signedWithKeyOf = c.key

\* C13: once init() has returned, after every generateCert(domain, isCA)
\* call that has completed, whatever its arguments, the store holds
\* exactly one CertPair with domain "." and that pair is a self-signed CA
\* certificate.
C13_OneSelfSignedRoot ==
    NoCallInFlight =>
        /\ Cardinality(PairsOf(certs, Root)) = 1
        /\ \A c \in PairsOf(certs, Root) : SelfSignedCA(c)

\* The pair c carries a certificate signed with the key of a pair stored
\* under "." in tbl
SignedByRoot(c, tbl) == \E r \in PairsOf(tbl, Root) : c.cert.signedWithKeyOf = r.key

\* C14: calls being made one at a time, every CertPair whose domain is not
\* "." carries, when it is inserted, a certificate signed by the private
\* key of the CertPair stored under "." at that moment, and stays signed
\* by the key of the pair stored under "." for as long as the pairs under
\* "." are not replaced or removed.
C14_SignedUntilRootChanges ==
    [][\A c \in certs' :
          (/\ c.domain /= Root
           /\ PairsOf(certs', Root) = PairsOf(certs, Root)
           /\ (c \in certs => SignedByRoot(c, certs)))
          => SignedByRoot(c, certs')]_vars

\* A leaf pair has just been issued and is signed by the key of the pair
\* stored under "."
C14_Witness ==
    /\ JustCompleted("generateCert")
    /\ IssuedLeaf(last) /\ last.created
    /\ \E c \in certs : c.id = last.id /\ c.domain /= Root /\ SignedByRoot(c, certs)

\* C14 as stated: in every reachable state every pair whose domain is not
\* "." is signed by the key of the pair currently stored under ".".
C14_AsStated == \A c \in certs : c.domain /= Root => SignedByRoot(c, certs)

(***************************************************************************)
(* Claims about the default resolver (checked under SpecDns)               *)
(***************************************************************************)
\* The answers handle builds from the rows getRecords returned
LocalAnswers(rows) == [i \in 1..Len(rows) |-> Answer(rows[i])]

\* Where the handler of query q stands, against what it has read so far:
\* it has asked the default resolver only if no rule of its snapshot
\* matched and getRecords returned no row, and what it sent are the default
\* resolver's answers in that case and in no other.
DefaultOnlyAsLastResort(q) ==
    LET r == reqs[q] IN
    /\ r.pc = "defaultResolve" =>
          MatchingRules(q) = {} /\ r.toAsk = null /\ r.records = <<>>
    /\ r.pc = "resolve" => MatchingRules(q) /= {} /\ r.toAsk /= DEFAULT_SERVER
    /\ r.pc = "sent" =>
          IF MatchingRules(q) /= {}
          THEN r.answers \in UpstreamAnswers(r.toAsk, r.name) /\ r.toAsk /= DEFAULT_SERVER
          ELSE IF r.records /= <<>>
          THEN r.answers = LocalAnswers(r.records)
          ELSE r.answers \in UpstreamAnswers(DEFAULT_SERVER, r.name)

\* The step in which the handler of query q has the result of getRecords:
\* it asks the default resolver exactly when no record matches the name
DefaultIffNoRecord(q) ==
    (reqs[q].pc = "getRecords" /\ reqs'[q].pc /= "getRecords") =>
        /\ MatchingRules(q) = {}
        /\ reqs'[q].pc = "defaultResolve" <=> getRecordsRows(records, reqs[q].name) = {}
        /\ reqs'[q].pc /= "defaultResolve" =>
              /\ reqs'[q].pc = "sent"
              /\ reqs'[q].records \in getRecords(records, reqs[q].name)

\* C15: for every query name, the handler asks the default resolver, and
\* sends that resolver's answers as they are, exactly when no proxy rule
\* matches the name and getRecords returns no record for it; in every other
\* case the default resolver is not asked.
C15_DefaultIffNothingElse ==
    /\ [](\A q \in Queries : DefaultOnlyAsLastResort(q))
    /\ [][\A q \in Queries : DefaultIffNoRecord(q)]_vars

\* A query that no stored rule and no stored record matches was answered
\* with the record of the default resolver
C15_Witness ==
    \E q \in Queries :
        /\ reqs[q].pc = "sent"
        /\ rules /= {} /\ records /= {}
        /\ reqs[q].rules /= <<>> /\ MatchingRules(q) = {}
        /\ reqs[q].records = <<>>
        /\ reqs[q].answers /= <<>>
        /\ reqs[q].answers \in UpstreamAnswers(DEFAULT_SERVER, reqs[q].name)

====
